---- MODULE Spec2Model ----
(***************************************************************************)
(* The three sample services of the repository, as one state machine.      *)
(*                                                                         *)
(*   variant "multi"  : src/main.go lines 1-305   (fixed keys, /healthz)   *)
(*   variant "simple" : src/main.go lines 307-553 (/redis/:val ... /all)   *)
(*   variant "item"   : src/unnamed/part_001      (/api/item, /redis/:val) *)
(*                                                                         *)
(* A behaviour starts one of the three processes (Init chooses the variant *)
(* and which handles the start-up code left nil) and then serves requests. *)
(* A request is served by its handler one backend call at a time, so the   *)
(* calls of concurrent requests interleave.  A backend call either        *)
(* succeeds or returns an error (the backend is unreachable at that        *)
(* moment); a cache entry may expire at any time after it was set.         *)
(***************************************************************************)
EXTENDS Integers, Sequences, FiniteSets, TLC

\* ------------------------------------------------------------------ bounds
MaxRequests == 2    \* requests served in one behaviour
MaxFaults == 1      \* backend calls that return an error in one behaviour
MaxNil == 1         \* handles the start-up code may leave nil

\* ------------------------------------------------------------- input sets
\* Path parameters.  "item:a" is a legal :val (gin reads up to the next '/').
Vals == {"a", "item:a"}
\* JSON bodies of POST /api/item: not JSON at all, or an object with some of
\* the fields id, name, value.
Bodies ==
    { [valid |-> FALSE, fields |-> [k \in {} |-> ""]] }
    \cup { [valid |-> TRUE, fields |-> ("id" :> "a") @@ ("name" :> "n") @@ ("value" :> v)]
           : v \in {"v", "w"} }
    \cup { [valid |-> TRUE, fields |-> ("name" :> "n") @@ ("value" :> "v")] }

VARIABLES
    variant,    \* which main() is running
    handle,     \* handle[b] = FALSE: the package-level handle of b is nil
    cache,      \* the redis keyspace: key -> value (absent keys are not in DOMAIN)
    coll,       \* the mongo collection "items": documents in natural order
    pgItems,    \* postgres table items: names in id order (id = position)
    myItems,    \* mysql table items: names in id order (id = position)
    reqs,       \* the requests served so far, in order of arrival
    faults      \* backend calls that have returned an error so far

vars == <<variant, handle, cache, coll, pgItems, myItems, reqs, faults>>

\* ---------------------------------------------------------------- helpers
EmptyMap == [k \in {} |-> ""]

Put(f, k, v) == [x \in (DOMAIN f) \cup {k} |-> IF x = k THEN v ELSE f[x]]

Drop(f, k) == [x \in (DOMAIN f) \ {k} |-> f[x]]

Field(d, k) == IF k \in DOMAIN d THEN d[k] ELSE ""

\* type Item struct { ID `json:"id" bson:"_id"`; Name; Value }
Item(id, name, value) == [ID |-> id, Name |-> name, Value |-> value]

ZeroItem == Item("", "", "")

\* Mutant of ItemDoc: the bson tags of Name and Value exchanged.
ItemDocSwapped(it) == ("_id" :> it.ID) @@ ("name" :> it.Value) @@ ("value" :> it.Name)

\* The bson form of an Item: every field is written, also an empty one.
ItemDoc(it) == ("_id" :> it.ID) @@ ("name" :> it.Name) @@ ("value" :> it.Value)

\* Decode(&item): absent fields keep Go's zero value.
DecodeItem(d) == Item(Field(d, "_id"), Field(d, "name"), Field(d, "value"))

\* c.ShouldBindJSON(&item): the struct carries no binding tag, so the only
\* error is a body that does not parse; an absent field stays "".
ShouldBindJSON(b) ==
    IF ~b.valid
    THEN [err |-> TRUE, item |-> ZeroItem]
    ELSE [err |-> FALSE,
          item |-> Item(Field(b.fields, "id"), Field(b.fields, "name"),
                        Field(b.fields, "value"))]

\* The cache key of an item: "item:" + id.
ItemKey(id) == "item:" \o id

\* Mutant of RedisSet: SET ... NX, an existing key keeps its value.
RedisSetNX(c, key, value) == IF key \in DOMAIN c THEN c ELSE Put(c, key, value)

\* ------------------------------------------------------------- the stores
\* rdb.Set(ctx, key, value, ttl)
RedisSet(c, key, value) == Put(c, key, value)

\* rdb.Get(ctx, key).Result(): redis.Nil is an error like any other.
RedisHit(c, key) == key \in DOMAIN c

\* Mutant of Matching: the filter's value is not compared.
MatchingAny(docs, k, v) == { i \in 1..Len(docs) : k \in DOMAIN docs[i] }

\* Positions of the documents a filter on one field selects.
Matching(docs, k, v) == { i \in 1..Len(docs) : Field(docs[i], k) = v /\ k \in DOMAIN docs[i] }

\* UpdateOne(filter {_id: id}, {$set: set}, upsert): $set merges the fields
\* into the stored document, or inserts filter+set when none matches.
Upsert(docs, id, set) ==
    LET m == Matching(docs, "_id", id) IN
    IF m = {}
    THEN Append(docs, [k \in (DOMAIN set) \cup {"_id"} |->
                          IF k \in DOMAIN set THEN set[k] ELSE id])
    ELSE [i \in 1..Len(docs) |->
             IF i \in m
             THEN [k \in (DOMAIN docs[i]) \cup (DOMAIN set) |->
                      IF k \in DOMAIN set THEN set[k] ELSE docs[i][k]]
             ELSE docs[i]]

\* ------------------------------------------------------------- requests
\* A request being served: its route and inputs, the handler's locals (item,
\* the response under construction), its position, and, once pc = "done", the
\* response.  The last four fields are bookkeeping for the properties:
\* ops logs the backend calls made and whether each succeeded, wrote is what
\* the request's own write stored, present whether the looked-up document
\* existed when getItem read, raced whether the table's last row was another
\* request's when the read-back ran, seen the requests already answered on
\* arrival.
NewReq(route, h, val, b) ==
    [route |-> route, h |-> h, val |-> val, in |-> b, item |-> ZeroItem, pc |-> "start",
     status |-> 0, body |-> EmptyMap, ops |-> <<>>, wrote |-> EmptyMap,
     present |-> FALSE, raced |-> FALSE, seen |-> { i \in 1..Len(reqs) : reqs[i].pc = "done" }]

Done(q) == q.pc = "done"

Wrote(q, w) == [q EXCEPT !.wrote = w]

\* The last row of the table is not the one this request inserted.
Raced(q, rows) ==
    [q EXCEPT !.raced = Len(rows) > 0 /\ rows[Len(rows)] \notin {Field(q.wrote, "name"),
                                                                Field(q.wrote, "value")}]

\* One more backend call in the request's log.
Log(q, b, op, ok) == [q EXCEPT !.ops = Append(@, <<b, op, ok>>)]

\* c.JSON(status, body); return
Reply(q, st, b) == [q EXCEPT !.pc = "done", !.status = st, !.body = b]

\* A backend call returns an error: at most MaxFaults times in a behaviour.
Outcome(ok) ==
    /\ ok \/ faults < MaxFaults
    /\ faults' = IF ok THEN faults ELSE faults + 1

At(r, h, pc) == r \in 1..Len(reqs) /\ reqs[r].h = h /\ reqs[r].pc = pc

Set(r, q) == reqs' = [reqs EXCEPT ![r] = q]

\* gin.Default() installs Recovery: a handler that panics (a method call on a
\* nil handle) is answered 500 with an empty body, and runs no further.
Panic(q) == Reply(q, 500, EmptyMap)

Err(msg) == "error" :> msg

\* ------------------------------------------------------------- start-up
\* The handles main() of each variant may leave nil: a failed mongo.Connect
\* (multi, simple; the item variant exits with log.Fatalf instead) and a
\* failed sql.Open.  redis.NewClient never fails.
Nilable(v) == IF v = "item" THEN {"pg", "my"} ELSE {"mongo", "pg", "my"}

Handles(v) ==
    { f \in [{"mongo", "pg", "my"} -> BOOLEAN] :
        /\ \A b \in {"mongo", "pg", "my"} : ~f[b] => b \in Nilable(v)
        /\ Cardinality({b \in {"mongo", "pg", "my"} : ~f[b]}) <= MaxNil }

InitVariant(v) ==
    /\ variant = v
    /\ handle \in Handles(v)
    /\ cache = EmptyMap
    /\ coll = <<>>
    /\ pgItems = <<>>
    /\ myItems = <<>>
    /\ reqs = <<>>
    /\ faults = 0

\* The cache entry's TTL (60 s or 10 min, set with every rdb.Set) runs out.
Expire(key) ==
    /\ key \in DOMAIN cache
    /\ cache' = Drop(cache, key)
    /\ UNCHANGED <<variant, handle, coll, pgItems, myItems, reqs, faults>>

\* ======================================================================
\* variant "item": src/unnamed/part_001
\* ======================================================================

\* r.GET("/redis/:val", handleRedisOnly)
handleRedisOnlyVal(r) ==
    \/ /\ At(r, "handleRedisOnlyVal", "start")
       /\ \E ok \in BOOLEAN :
            /\ Outcome(ok)
            /\ LET q == Log(reqs[r], "redis", "set", ok) IN
               IF ok
               THEN /\ cache' = RedisSet(cache, q.val, q.val)
                    /\ Set(r, [q EXCEPT !.pc = "get"])
               ELSE /\ cache' = cache
                    /\ Set(r, Reply(q, 500, Err("redis SET: ")))
       /\ UNCHANGED <<variant, handle, coll, pgItems, myItems>>
    \/ /\ At(r, "handleRedisOnlyVal", "get")
       /\ \E ok \in BOOLEAN :
            /\ Outcome(ok)
            /\ LET hit == ok /\ RedisHit(cache, reqs[r].val)
                   q == Log(reqs[r], "redis", "get", hit) IN
               IF hit
               THEN Set(r, Reply(q, 200, ("source" :> "redis") @@ ("value" :> cache[q.val])))
               ELSE Set(r, Reply(q, 500, Err("redis GET: ")))
       /\ UNCHANGED <<variant, handle, cache, coll, pgItems, myItems>>

\* r.GET("/mongo/:val", handleMongoOnly): the collection is the one
\* createItem and getItem use.
handleMongoOnlyVal(r) ==
    \/ /\ At(r, "handleMongoOnlyVal", "start")
       /\ \E ok \in BOOLEAN :
            /\ Outcome(ok)
            /\ LET q == Log(reqs[r], "mongo", "upsert", ok) IN
               IF ok
               THEN /\ coll' = Upsert(coll, q.val, ("_id" :> q.val) @@ ("value" :> q.val))
                    /\ Set(r, [Wrote(q, ("_id" :> q.val) @@ ("value" :> q.val)) EXCEPT !.pc = "find"])
               ELSE /\ coll' = coll
                    /\ Set(r, Reply(q, 500, Err("mongo upsert: ")))
       /\ UNCHANGED <<variant, handle, cache, pgItems, myItems>>
    \/ /\ At(r, "handleMongoOnlyVal", "find")
       /\ \E ok \in BOOLEAN :
            /\ Outcome(ok)
            /\ LET m == Matching(coll, "_id", reqs[r].val)
                   found == ok /\ m # {}
                   q == Log(reqs[r], "mongo", "find", found) IN
               IF found
               THEN \E i \in m :
                        Set(r, Reply(q, 200, ("source" :> "mongo") @@ ("doc" :> coll[i])))
               ELSE Set(r, Reply(q, 500, Err("mongo find: ")))
       /\ UNCHANGED <<variant, handle, cache, coll, pgItems, myItems>>

\* r.GET("/postgres/:val", handlePostgresOnly)
handlePostgresOnlyVal(r) ==
    \/ /\ At(r, "handlePostgresOnlyVal", "start")
       /\ IF ~handle["pg"]
          THEN /\ Set(r, Panic(reqs[r]))
               /\ UNCHANGED <<pgItems, faults>>
          ELSE \E ok \in BOOLEAN :
                 /\ Outcome(ok)
                 /\ LET q == Log(reqs[r], "pg", "insert", ok) IN
                    IF ok
                    THEN /\ pgItems' = Append(pgItems, q.val)
                         /\ Set(r, [Wrote(q, "value" :> q.val) EXCEPT !.pc = "select"])
                    ELSE /\ pgItems' = pgItems
                         /\ Set(r, Reply(q, 500, Err("pg INSERT: ")))
       /\ UNCHANGED <<variant, handle, cache, coll, myItems>>
    \/ /\ At(r, "handlePostgresOnlyVal", "select")
       /\ \E ok \in BOOLEAN :
            /\ Outcome(ok)
            \* SELECT name FROM items WHERE name=$1 LIMIT 1: any row of that name
            /\ LET m == { i \in 1..Len(pgItems) : pgItems[i] = reqs[r].val }
                   found == ok /\ m # {}
                   q == Log(Raced(reqs[r], pgItems), "pg", "select", found) IN
               IF found
               THEN \E i \in m :
                        Set(r, Reply(q, 200, ("source" :> "postgres") @@ ("value" :> pgItems[i])))
               ELSE Set(r, Reply(q, 500, Err("pg SELECT: ")))
       /\ UNCHANGED <<variant, handle, cache, coll, pgItems, myItems>>

\* r.GET("/mysql/:val", handleMySQLOnly)
handleMySQLOnlyVal(r) ==
    \/ /\ At(r, "handleMySQLOnlyVal", "start")
       /\ IF ~handle["my"]
          THEN /\ Set(r, Panic(reqs[r]))
               /\ UNCHANGED <<myItems, faults>>
          ELSE \E ok \in BOOLEAN :
                 /\ Outcome(ok)
                 /\ LET q == Log(reqs[r], "my", "insert", ok) IN
                    IF ok
                    THEN /\ myItems' = Append(myItems, q.val)
                         /\ Set(r, [Wrote(q, "value" :> q.val) EXCEPT !.pc = "select"])
                    ELSE /\ myItems' = myItems
                         /\ Set(r, Reply(q, 500, Err("mysql INSERT: ")))
       /\ UNCHANGED <<variant, handle, cache, coll, pgItems>>
    \/ /\ At(r, "handleMySQLOnlyVal", "select")
       /\ \E ok \in BOOLEAN :
            /\ Outcome(ok)
            /\ LET m == { i \in 1..Len(myItems) : myItems[i] = reqs[r].val }
                   found == ok /\ m # {}
                   q == Log(Raced(reqs[r], myItems), "my", "select", found) IN
               IF found
               THEN \E i \in m :
                        Set(r, Reply(q, 200, ("source" :> "mysql") @@ ("value" :> myItems[i])))
               ELSE Set(r, Reply(q, 500, Err("mysql SELECT: ")))
       /\ UNCHANGED <<variant, handle, cache, coll, pgItems, myItems>>

\* Mutant of createItem: the upserted document is deleted again when the
\* cache write fails.
createItemRollback(r) ==
    \/ /\ At(r, "createItem", "start")
       /\ LET bound == ShouldBindJSON(reqs[r].in) IN
          IF bound.err
          THEN /\ Set(r, Reply(reqs[r], 400, Err("bind")))
               /\ UNCHANGED <<coll, faults>>
          ELSE \E ok \in BOOLEAN :
                 /\ Outcome(ok)
                 /\ LET q == Log([reqs[r] EXCEPT !.item = bound.item], "mongo", "upsert", ok) IN
                    IF ok
                    THEN /\ coll' = Upsert(coll, q.item.ID, ItemDoc(q.item))
                         /\ Set(r, [q EXCEPT !.pc = "set"])
                    ELSE /\ coll' = coll
                         /\ Set(r, Reply(q, 500, Err("mongo: ")))
       /\ UNCHANGED <<variant, handle, cache, pgItems, myItems>>
    \/ /\ At(r, "createItem", "set")
       /\ \E ok \in BOOLEAN :
            /\ Outcome(ok)
            /\ LET q == Log(reqs[r], "redis", "set", ok) IN
               IF ok
               THEN /\ cache' = RedisSet(cache, ItemKey(q.item.ID), q.item.Value)
                    /\ coll' = coll
                    /\ Set(r, Reply(q, 200, ("status" :> "created") @@ ("id" :> q.item.ID)))
               ELSE /\ cache' = cache
                    /\ coll' = SelectSeq(coll, LAMBDA d : d["_id"] # q.item.ID)
                    /\ Set(r, Reply(q, 500, Err("redis: ")))
       /\ UNCHANGED <<variant, handle, pgItems, myItems>>

\* r.POST("/api/item", createItem): bind, upsert the document, then write
\* the value through to the cache.  Nothing is undone when the second fails.
createItem(r) ==
    \/ /\ At(r, "createItem", "start")
       /\ LET bound == ShouldBindJSON(reqs[r].in) IN
          IF bound.err
          THEN /\ Set(r, Reply(reqs[r], 400, Err("bind")))
               /\ UNCHANGED <<coll, faults>>
          ELSE \E ok \in BOOLEAN :
                 /\ Outcome(ok)
                 /\ LET q == Log([reqs[r] EXCEPT !.item = bound.item], "mongo", "upsert", ok) IN
                    IF ok
                    THEN /\ coll' = Upsert(coll, q.item.ID, ItemDoc(q.item))
                         /\ Set(r, [q EXCEPT !.pc = "set"])
                    ELSE /\ coll' = coll
                         /\ Set(r, Reply(q, 500, Err("mongo: ")))
       /\ UNCHANGED <<variant, handle, cache, pgItems, myItems>>
    \/ /\ At(r, "createItem", "set")
       /\ \E ok \in BOOLEAN :
            /\ Outcome(ok)
            /\ LET q == Log(reqs[r], "redis", "set", ok) IN
               IF ok
               THEN /\ cache' = RedisSet(cache, ItemKey(q.item.ID), q.item.Value)
                    /\ Set(r, Reply(q, 200, ("status" :> "created") @@ ("id" :> q.item.ID)))
               ELSE /\ cache' = cache
                    /\ Set(r, Reply(q, 500, Err("redis: ")))
       /\ UNCHANGED <<variant, handle, coll, pgItems, myItems>>

\* r.GET("/api/item/:id", getItem): any error of FindOne/Decode is a 404; the
\* error of the cache read is dropped and leaves cached = "".
getItem(r) ==
    \/ /\ At(r, "getItem", "start")
       /\ \E ok \in BOOLEAN :
            /\ Outcome(ok)
            /\ LET m == Matching(coll, "_id", reqs[r].val)
                   found == ok /\ m # {}
                   q == Log([reqs[r] EXCEPT !.present = (m # {})], "mongo", "find", found) IN
               IF found
               THEN \E i \in m :
                        Set(r, [q EXCEPT !.pc = "get", !.item = DecodeItem(coll[i])])
               ELSE Set(r, Reply(q, 404, Err("not found")))
       /\ UNCHANGED <<variant, handle, cache, coll, pgItems, myItems>>
    \/ /\ At(r, "getItem", "get")
       /\ \E ok \in BOOLEAN :
            /\ Outcome(ok)
            /\ LET key == ItemKey(reqs[r].val)
                   hit == ok /\ RedisHit(cache, key)
                   q == Log(reqs[r], "redis", "get", hit)
                   cached == IF hit THEN cache[key] ELSE "" IN
               Set(r, Reply(q, 200, ("item" :> q.item) @@ ("redis_cached" :> cached)))
       /\ UNCHANGED <<variant, handle, cache, coll, pgItems, myItems>>

\* The routes main() registers (part_001 lines 96-103).
RoutesItem ==
    (<<"GET", "/redis/:val">> :> "handleRedisOnlyVal")
    @@ (<<"GET", "/mongo/:val">> :> "handleMongoOnlyVal")
    @@ (<<"GET", "/postgres/:val">> :> "handlePostgresOnlyVal")
    @@ (<<"GET", "/mysql/:val">> :> "handleMySQLOnlyVal")
    @@ (<<"POST", "/api/item">> :> "createItem")
    @@ (<<"GET", "/api/item/:id">> :> "getItem")

\* ======================================================================
\* variant "simple": src/main.go lines 307-553
\* ======================================================================

\* Mutant of LastNamed: the WHERE name=$1 of the read-back left out.
LastRow(rows, name) == Len(rows)

\* The last row of a table with the given name (ORDER BY id DESC LIMIT 1).
LastNamed(rows, name) ==
    LET m == { i \in 1..Len(rows) : rows[i] = name } IN
    IF m = {} THEN 0 ELSE CHOOSE i \in m : \A j \in m : j <= i

\* Mutant of handleRedis: the SET stores the constant "value", as the
\* aggregate handlers do, instead of val.
handleRedisConstant(r) ==
    \/ /\ At(r, "handleRedis", "start")
       /\ \E ok \in BOOLEAN :
            /\ Outcome(ok)
            /\ LET q == Log(reqs[r], "redis", "set", ok) IN
               IF ok
               THEN /\ cache' = RedisSet(cache, q.val, "value")
                    /\ Set(r, [q EXCEPT !.pc = "get"])
               ELSE /\ cache' = cache
                    /\ Set(r, Reply(q, 500, Err("Redis SET failed: ")))
       /\ UNCHANGED <<variant, handle, coll, pgItems, myItems>>
    \/ /\ At(r, "handleRedis", "get")
       /\ \E ok \in BOOLEAN :
            /\ Outcome(ok)
            /\ LET hit == ok /\ RedisHit(cache, reqs[r].val)
                   q == Log(reqs[r], "redis", "get", hit) IN
               IF hit
               THEN Set(r, Reply(q, 200, ("source" :> "redis") @@ ("key" :> q.val)
                                          @@ ("value" :> cache[q.val])))
               ELSE Set(r, Reply(q, 500, Err("Redis GET failed: ")))
       /\ UNCHANGED <<variant, handle, cache, coll, pgItems, myItems>>

\* Mutant of handleRedis: the error of the SET is dropped, as the aggregate
\* handlers do, and the handler goes on to the GET.
handleRedisNoAbort(r) ==
    \/ /\ At(r, "handleRedis", "start")
       /\ \E ok \in BOOLEAN :
            /\ Outcome(ok)
            /\ cache' = IF ok THEN RedisSet(cache, reqs[r].val, reqs[r].val) ELSE cache
            /\ Set(r, [Log(reqs[r], "redis", "set", ok) EXCEPT !.pc = "get"])
       /\ UNCHANGED <<variant, handle, coll, pgItems, myItems>>
    \/ /\ At(r, "handleRedis", "get")
       /\ \E ok \in BOOLEAN :
            /\ Outcome(ok)
            /\ LET hit == ok /\ RedisHit(cache, reqs[r].val)
                   q == Log(reqs[r], "redis", "get", hit) IN
               IF hit
               THEN Set(r, Reply(q, 200, ("source" :> "redis") @@ ("key" :> q.val)
                                          @@ ("value" :> cache[q.val])))
               ELSE Set(r, Reply(q, 500, Err("Redis GET failed: ")))
       /\ UNCHANGED <<variant, handle, cache, coll, pgItems, myItems>>

\* r.GET("/redis/:val", handleRedis)
handleRedis(r) ==
    \/ /\ At(r, "handleRedis", "start")
       /\ \E ok \in BOOLEAN :
            /\ Outcome(ok)
            /\ LET q == Log(reqs[r], "redis", "set", ok) IN
               IF ok
               THEN /\ cache' = RedisSet(cache, q.val, q.val)
                    /\ Set(r, [q EXCEPT !.pc = "get"])
               ELSE /\ cache' = cache
                    /\ Set(r, Reply(q, 500, Err("Redis SET failed: ")))
       /\ UNCHANGED <<variant, handle, coll, pgItems, myItems>>
    \/ /\ At(r, "handleRedis", "get")
       /\ \E ok \in BOOLEAN :
            /\ Outcome(ok)
            /\ LET hit == ok /\ RedisHit(cache, reqs[r].val)
                   q == Log(reqs[r], "redis", "get", hit) IN
               IF hit
               THEN Set(r, Reply(q, 200, ("source" :> "redis") @@ ("key" :> q.val)
                                          @@ ("value" :> cache[q.val])))
               ELSE Set(r, Reply(q, 500, Err("Redis GET failed: ")))
       /\ UNCHANGED <<variant, handle, cache, coll, pgItems, myItems>>

\* r.GET("/mongo/:val", handleMongo)
handleMongo(r) ==
    \/ /\ At(r, "handleMongo", "start")
       /\ IF ~handle["mongo"]
          THEN /\ Set(r, Panic(reqs[r]))
               /\ UNCHANGED <<coll, faults>>
          ELSE \E ok \in BOOLEAN :
                 /\ Outcome(ok)
                 /\ LET q == Log(reqs[r], "mongo", "upsert", ok) IN
                    IF ok
                    THEN /\ coll' = Upsert(coll, q.val, "value" :> q.val)
                         /\ Set(r, [Wrote(q, ("_id" :> q.val) @@ ("value" :> q.val)) EXCEPT !.pc = "find"])
                    ELSE /\ coll' = coll
                         /\ Set(r, Reply(q, 500, Err("Mongo UpdateOne failed: ")))
       /\ UNCHANGED <<variant, handle, cache, pgItems, myItems>>
    \/ /\ At(r, "handleMongo", "find")
       /\ \E ok \in BOOLEAN :
            /\ Outcome(ok)
            /\ LET m == Matching(coll, "_id", reqs[r].val)
                   found == ok /\ m # {}
                   q == Log(reqs[r], "mongo", "find", found) IN
               IF found
               THEN \E i \in m :
                        Set(r, Reply(q, 200, ("source" :> "mongo") @@ ("doc" :> coll[i])))
               ELSE Set(r, Reply(q, 500, Err("Mongo FindOne failed: ")))
       /\ UNCHANGED <<variant, handle, cache, coll, pgItems, myItems>>

\* r.GET("/postgres/:val", handlePostgres)
handlePostgres(r) ==
    \/ /\ At(r, "handlePostgres", "start")
       /\ IF ~handle["pg"]
          THEN /\ Set(r, Panic(reqs[r]))
               /\ UNCHANGED <<pgItems, faults>>
          ELSE \E ok \in BOOLEAN :
                 /\ Outcome(ok)
                 /\ LET q == Log(reqs[r], "pg", "insert", ok) IN
                    IF ok
                    THEN /\ pgItems' = Append(pgItems, q.val)
                         /\ Set(r, [Wrote(q, "value" :> q.val) EXCEPT !.pc = "select"])
                    ELSE /\ pgItems' = pgItems
                         /\ Set(r, Reply(q, 500, Err("Postgres INSERT failed: ")))
       /\ UNCHANGED <<variant, handle, cache, coll, myItems>>
    \/ /\ At(r, "handlePostgres", "select")
       /\ \E ok \in BOOLEAN :
            /\ Outcome(ok)
            /\ LET i == LastNamed(pgItems, reqs[r].val)
                   found == ok /\ i # 0
                   q == Log(Raced(reqs[r], pgItems), "pg", "select", found) IN
               IF found
               THEN Set(r, Reply(q, 200, ("source" :> "postgres") @@ ("value" :> pgItems[i])))
               ELSE Set(r, Reply(q, 500, Err("Postgres SELECT failed: ")))
       /\ UNCHANGED <<variant, handle, cache, coll, pgItems, myItems>>

\* r.GET("/mysql/:val", handleMySQL)
handleMySQL(r) ==
    \/ /\ At(r, "handleMySQL", "start")
       /\ IF ~handle["my"]
          THEN /\ Set(r, Panic(reqs[r]))
               /\ UNCHANGED <<myItems, faults>>
          ELSE \E ok \in BOOLEAN :
                 /\ Outcome(ok)
                 /\ LET q == Log(reqs[r], "my", "insert", ok) IN
                    IF ok
                    THEN /\ myItems' = Append(myItems, q.val)
                         /\ Set(r, [Wrote(q, "value" :> q.val) EXCEPT !.pc = "select"])
                    ELSE /\ myItems' = myItems
                         /\ Set(r, Reply(q, 500, Err("MySQL INSERT failed: ")))
       /\ UNCHANGED <<variant, handle, cache, coll, pgItems>>
    \/ /\ At(r, "handleMySQL", "select")
       /\ \E ok \in BOOLEAN :
            /\ Outcome(ok)
            /\ LET i == LastNamed(myItems, reqs[r].val)
                   found == ok /\ i # 0
                   q == Log(Raced(reqs[r], myItems), "my", "select", found) IN
               IF found
               THEN Set(r, Reply(q, 200, ("source" :> "mysql") @@ ("value" :> myItems[i])))
               ELSE Set(r, Reply(q, 500, Err("MySQL SELECT failed: ")))
       /\ UNCHANGED <<variant, handle, cache, coll, pgItems, myItems>>

\* r.GET("/all/:val", handleAll): only the error of the redis SET is kept
\* (res["redis_error"]); every other error is dropped and the zero value of
\* the read-back goes into the response.  res is built up in q.body.
handleAll(r) ==
    \/ /\ At(r, "handleAll", "start")
       /\ \E ok \in BOOLEAN :
            /\ Outcome(ok)
            /\ LET q == Log([reqs[r] EXCEPT !.body = "source" :> "all"], "redis", "set", ok) IN
               IF ok
               THEN /\ cache' = RedisSet(cache, q.val, q.val)
                    /\ Set(r, [q EXCEPT !.pc = "get"])
               ELSE /\ cache' = cache
                    /\ Set(r, [q EXCEPT !.pc = "upsert",
                                        !.body = Put(@, "redis_error", "err")])
       /\ UNCHANGED <<variant, handle, coll, pgItems, myItems>>
    \/ /\ At(r, "handleAll", "get")
       /\ \E ok \in BOOLEAN :
            /\ Outcome(ok)
            /\ LET hit == ok /\ RedisHit(cache, reqs[r].val)
                   q == Log(reqs[r], "redis", "get", hit) IN
               Set(r, [q EXCEPT !.pc = "upsert",
                                !.body = Put(@, "redis", IF hit THEN cache[q.val] ELSE "")])
       /\ UNCHANGED <<variant, handle, cache, coll, pgItems, myItems>>
    \/ /\ At(r, "handleAll", "upsert")
       /\ IF ~handle["mongo"]
          THEN /\ Set(r, Panic(reqs[r]))
               /\ UNCHANGED <<coll, faults>>
          ELSE \E ok \in BOOLEAN :
                 /\ Outcome(ok)
                 /\ coll' = IF ok THEN Upsert(coll, reqs[r].val, "value" :> reqs[r].val)
                                  ELSE coll
                 /\ Set(r, [Log(reqs[r], "mongo", "upsert", ok) EXCEPT !.pc = "find"])
       /\ UNCHANGED <<variant, handle, cache, pgItems, myItems>>
    \/ /\ At(r, "handleAll", "find")
       /\ \E ok \in BOOLEAN :
            /\ Outcome(ok)
            /\ LET m == Matching(coll, "_id", reqs[r].val)
                   found == ok /\ m # {}
                   q == Log(reqs[r], "mongo", "find", found) IN
               \E d \in (IF found THEN {coll[i] : i \in m} ELSE {EmptyMap}) :
                   Set(r, [q EXCEPT !.pc = "pginsert", !.body = Put(@, "mongo", d)])
       /\ UNCHANGED <<variant, handle, cache, coll, pgItems, myItems>>
    \/ /\ At(r, "handleAll", "pginsert")
       /\ IF ~handle["pg"]
          THEN /\ Set(r, Panic(reqs[r]))
               /\ UNCHANGED <<pgItems, faults>>
          ELSE \E ok \in BOOLEAN :
                 /\ Outcome(ok)
                 /\ pgItems' = IF ok THEN Append(pgItems, reqs[r].val) ELSE pgItems
                 /\ Set(r, [Log(reqs[r], "pg", "insert", ok) EXCEPT !.pc = "pgselect"])
       /\ UNCHANGED <<variant, handle, cache, coll, myItems>>
    \/ /\ At(r, "handleAll", "pgselect")
       /\ \E ok \in BOOLEAN :
            /\ Outcome(ok)
            /\ LET i == LastNamed(pgItems, reqs[r].val)
                   found == ok /\ i # 0
                   q == Log(reqs[r], "pg", "select", found) IN
               Set(r, [q EXCEPT !.pc = "myinsert",
                                !.body = Put(@, "postgres", IF found THEN pgItems[i] ELSE "")])
       /\ UNCHANGED <<variant, handle, cache, coll, pgItems, myItems>>
    \/ /\ At(r, "handleAll", "myinsert")
       /\ IF ~handle["my"]
          THEN /\ Set(r, Panic(reqs[r]))
               /\ UNCHANGED <<myItems, faults>>
          ELSE \E ok \in BOOLEAN :
                 /\ Outcome(ok)
                 /\ myItems' = IF ok THEN Append(myItems, reqs[r].val) ELSE myItems
                 /\ Set(r, [Log(reqs[r], "my", "insert", ok) EXCEPT !.pc = "myselect"])
       /\ UNCHANGED <<variant, handle, cache, coll, pgItems>>
    \/ /\ At(r, "handleAll", "myselect")
       /\ \E ok \in BOOLEAN :
            /\ Outcome(ok)
            /\ LET i == LastNamed(myItems, reqs[r].val)
                   found == ok /\ i # 0
                   q == Log(reqs[r], "my", "select", found) IN
               Set(r, Reply(q, 200, Put(q.body, "mysql", IF found THEN myItems[i] ELSE "")))
       /\ UNCHANGED <<variant, handle, cache, coll, pgItems, myItems>>

\* The routes main() registers (main.go lines 342-346).
RoutesSimple ==
    (<<"GET", "/redis/:val">> :> "handleRedis")
    @@ (<<"GET", "/mongo/:val">> :> "handleMongo")
    @@ (<<"GET", "/postgres/:val">> :> "handlePostgres")
    @@ (<<"GET", "/mysql/:val">> :> "handleMySQL")
    @@ (<<"GET", "/all/:val">> :> "handleAll")

\* ======================================================================
\* variant "multi": src/main.go lines 1-305
\* ======================================================================

\* The ObjectID the driver gives an inserted document: unique per insert
\* (every handler inserts once, so the request's ordinal identifies it).
\* The ts field (time.Now().Unix()) is left out: no handler reads it.
OID(r) == "oid" \o ToString(r)

\* fmt.Sprintf("test-key-%d", time.Now().UnixNano()): a key of its own for
\* every request.
TestKey(r) == "test-key-" \o ToString(r)

\* What https://httpbin.org/get may answer, and the body it sends.
HttpStatuses == {200, 503}

HttpBody == <<"b1", "b2">>

\* Mutant of healthz: a health check that reports a nil handle as 503.
healthzDeep(r) ==
    /\ At(r, "healthz", "start")
    /\ Set(r, IF \A b \in DOMAIN handle : handle[b]
              THEN Reply(reqs[r], 200, "status" :> "ok")
              ELSE Reply(reqs[r], 503, "status" :> "down"))
    /\ UNCHANGED <<variant, handle, cache, coll, pgItems, myItems, faults>>

\* r.GET("/healthz", func(c) { c.JSON(200, gin.H{"status": "ok"}) })
healthz(r) ==
    /\ At(r, "healthz", "start")
    /\ Set(r, Reply(reqs[r], 200, "status" :> "ok"))
    /\ UNCHANGED <<variant, handle, cache, coll, pgItems, myItems, faults>>

\* r.GET("/redis-only", handleRedisOnly)
handleRedisOnly(r) ==
    \/ /\ At(r, "handleRedisOnly", "start")
       /\ \E ok \in BOOLEAN :
            /\ Outcome(ok)
            /\ LET q == Log(reqs[r], "redis", "set", ok) IN
               IF ok
               THEN /\ cache' = RedisSet(cache, TestKey(r), "hello-redis")
                    /\ Set(r, [q EXCEPT !.pc = "get"])
               ELSE /\ cache' = cache
                    /\ Set(r, Reply(q, 500, Err("err")))
       /\ UNCHANGED <<variant, handle, coll, pgItems, myItems>>
    \/ /\ At(r, "handleRedisOnly", "get")
       /\ \E ok \in BOOLEAN :
            /\ Outcome(ok)
            /\ LET hit == ok /\ RedisHit(cache, TestKey(r))
                   q == Log(reqs[r], "redis", "get", hit) IN
               IF hit
               THEN Set(r, Reply(q, 200, ("source" :> "redis") @@ ("key" :> TestKey(r))
                                          @@ ("value" :> cache[TestKey(r)])))
               ELSE Set(r, Reply(q, 500, Err("err")))
       /\ UNCHANGED <<variant, handle, cache, coll, pgItems, myItems>>

\* r.GET("/mongo-only", handleMongoOnly): FindOne with the filter
\* {name: "test-item"} and no sort returns a document of that name, not
\* necessarily the one just inserted.
handleMongoOnly(r) ==
    \/ /\ At(r, "handleMongoOnly", "start")
       /\ IF ~handle["mongo"]
          THEN /\ Set(r, Panic(reqs[r]))
               /\ UNCHANGED <<coll, faults>>
          ELSE \E ok \in BOOLEAN :
                 /\ Outcome(ok)
                 /\ LET q == Log(reqs[r], "mongo", "insert", ok) IN
                    IF ok
                    THEN /\ coll' = Append(coll, ("_id" :> OID(r)) @@ ("name" :> "test-item"))
                         /\ Set(r, [Wrote(q, ("_id" :> OID(r)) @@ ("name" :> "test-item"))
                                      EXCEPT !.pc = "find"])
                    ELSE /\ coll' = coll
                         /\ Set(r, Reply(q, 500, Err("err")))
       /\ UNCHANGED <<variant, handle, cache, pgItems, myItems>>
    \/ /\ At(r, "handleMongoOnly", "find")
       /\ \E ok \in BOOLEAN :
            /\ Outcome(ok)
            /\ LET m == Matching(coll, "name", "test-item")
                   found == ok /\ m # {}
                   q == Log(reqs[r], "mongo", "find", found) IN
               IF found
               THEN \E i \in m :
                        Set(r, Reply(q, 200, ("source" :> "mongo") @@ ("document" :> coll[i])))
               ELSE Set(r, Reply(q, 500, Err("err")))
       /\ UNCHANGED <<variant, handle, cache, coll, pgItems, myItems>>

\* r.GET("/postgres-only", handlePostgresOnly): the read-back is the last
\* row of the table, whoever inserted it.
handlePostgresOnly(r) ==
    \/ /\ At(r, "handlePostgresOnly", "start")
       /\ IF ~handle["pg"]
          THEN /\ Set(r, Panic(reqs[r]))
               /\ UNCHANGED <<pgItems, faults>>
          ELSE \E ok \in BOOLEAN :
                 /\ Outcome(ok)
                 /\ LET q == Log(reqs[r], "pg", "insert", ok) IN
                    IF ok
                    THEN /\ pgItems' = Append(pgItems, "pg-item")
                         /\ Set(r, [Wrote(q, ("id" :> ToString(Len(pgItems) + 1)) @@ ("name" :> "pg-item"))
                                   EXCEPT !.pc = "select"])
                    ELSE /\ pgItems' = pgItems
                         /\ Set(r, Reply(q, 500, Err("err")))
       /\ UNCHANGED <<variant, handle, cache, coll, myItems>>
    \/ /\ At(r, "handlePostgresOnly", "select")
       /\ \E ok \in BOOLEAN :
            /\ Outcome(ok)
            /\ LET found == ok /\ Len(pgItems) > 0
                   q == Log(Raced(reqs[r], pgItems), "pg", "select", found) IN
               IF found
               THEN Set(r, Reply(q, 200, ("source" :> "postgres")
                                          @@ ("id" :> ToString(Len(pgItems)))
                                          @@ ("name" :> pgItems[Len(pgItems)])))
               ELSE Set(r, Reply(q, 500, Err("err")))
       /\ UNCHANGED <<variant, handle, cache, coll, pgItems, myItems>>

\* r.GET("/mysql-only", handleMySQLOnly)
handleMySQLOnly(r) ==
    \/ /\ At(r, "handleMySQLOnly", "start")
       /\ IF ~handle["my"]
          THEN /\ Set(r, Panic(reqs[r]))
               /\ UNCHANGED <<myItems, faults>>
          ELSE \E ok \in BOOLEAN :
                 /\ Outcome(ok)
                 /\ LET q == Log(reqs[r], "my", "insert", ok) IN
                    IF ok
                    THEN /\ myItems' = Append(myItems, "mysql-item")
                         /\ Set(r, [Wrote(q, ("id" :> ToString(Len(myItems) + 1)) @@ ("name" :> "mysql-item"))
                                   EXCEPT !.pc = "select"])
                    ELSE /\ myItems' = myItems
                         /\ Set(r, Reply(q, 500, Err("err")))
       /\ UNCHANGED <<variant, handle, cache, coll, pgItems>>
    \/ /\ At(r, "handleMySQLOnly", "select")
       /\ \E ok \in BOOLEAN :
            /\ Outcome(ok)
            /\ LET found == ok /\ Len(myItems) > 0
                   q == Log(Raced(reqs[r], myItems), "my", "select", found) IN
               IF found
               THEN Set(r, Reply(q, 200, ("source" :> "mysql")
                                          @@ ("id" :> ToString(Len(myItems)))
                                          @@ ("name" :> myItems[Len(myItems)])))
               ELSE Set(r, Reply(q, 500, Err("err")))
       /\ UNCHANGED <<variant, handle, cache, coll, pgItems, myItems>>

\* r.GET("/http-only", handleHTTPOnly): the error of io.ReadAll is dropped,
\* so a body cut short still answers 200 with the length read so far.
handleHTTPOnly(r) ==
    \/ /\ At(r, "handleHTTPOnly", "start")
       /\ \E ok \in BOOLEAN :
            /\ Outcome(ok)
            /\ LET q == Log(reqs[r], "http", "get", ok) IN
               IF ok
               THEN \E st \in HttpStatuses :
                        Set(r, [q EXCEPT !.pc = "read", !.body = "status" :> st])
               ELSE Set(r, Reply(q, 500, Err("err")))
       /\ UNCHANGED <<variant, handle, cache, coll, pgItems, myItems>>
    \/ /\ At(r, "handleHTTPOnly", "read")
       /\ \E ok \in BOOLEAN :
            /\ Outcome(ok)
            /\ LET q == Log(reqs[r], "http", "read", ok) IN
               \E n \in (IF ok THEN {Len(HttpBody)} ELSE 0..(Len(HttpBody) - 1)) :
                   Set(r, Reply(q, 200, ("source" :> "http") @@ ("status" :> q.body["status"])
                                         @@ ("bodyLen" :> Len(SubSeq(HttpBody, 1, n)))))
       /\ UNCHANGED <<variant, handle, cache, coll, pgItems, myItems>>

\* The four aggregate handlers run the same calls with their own constants:
\* the cache key and value, the document name, the row names, and the calls
\* they make, in order.  Every error is dropped (no `err` is kept, no
\* *_error key exists); a failed read-back leaves the zero value.
RedisMongoCfg ==
    [key |-> "multi-key", value |-> "from-redis", doc |-> "multi-item", pg |-> "", my |-> "",
     steps |-> <<"start", "rget", "minsert", "mfind">>]

TripleCfg ==
    [key |-> "triple-key", value |-> "value", doc |-> "triple-item", pg |-> "triple-pg",
     my |-> "", steps |-> <<"start", "rget", "minsert", "mfind", "pginsert", "pgselect">>]

AllDBsCfg ==
    [key |-> "all-key", value |-> "value", doc |-> "all-item", pg |-> "all-pg",
     my |-> "all-mysql",
     steps |-> <<"start", "rget", "minsert", "mfind", "pginsert", "pgselect",
                 "myinsert", "myselect">>]

KitchenSinkCfg ==
    [key |-> "sink-key", value |-> "value", doc |-> "sink-item", pg |-> "sink-pg",
     my |-> "sink-mysql",
     steps |-> <<"start", "rget", "minsert", "mfind", "pginsert", "pgselect",
                 "myinsert", "myselect", "http">>]

\* The handle a call dereferences ("" for redis and http, which have none
\* that can be nil).
HandleOf(step) ==
    CASE step \in {"minsert", "mfind"} -> "mongo"
      [] step \in {"pginsert", "pgselect"} -> "pg"
      [] step \in {"myinsert", "myselect"} -> "my"
      [] OTHER -> ""

\* After the call `step`: go on to the next call of the handler, or, after
\* the last one, c.JSON(200, gin.H{...}) with what was read back.
Proceed(q, K, step, body) ==
    LET i == CHOOSE j \in 1..Len(K.steps) : K.steps[j] = step IN
    IF i = Len(K.steps)
    THEN Reply(q, 200, body)
    ELSE [q EXCEPT !.pc = K.steps[i + 1], !.body = body]

\* One call of an aggregate handler (the request's pc names it).
Aggregate(r, h, K) ==
    /\ r \in 1..Len(reqs)
    /\ reqs[r].h = h
    /\ ~Done(reqs[r])
    /\ LET q == reqs[r]
           step == q.pc
           b == HandleOf(step) IN
       IF b # "" /\ ~handle[b]
       THEN /\ Set(r, Panic(q))
            /\ UNCHANGED <<cache, coll, pgItems, myItems, faults>>
       ELSE \E ok \in BOOLEAN :
              /\ Outcome(ok)
              /\ CASE step = "start" ->
                        \* rdb.Set(ctx, key, value, 60*time.Second)
                        /\ cache' = IF ok THEN RedisSet(cache, K.key, K.value) ELSE cache
                        /\ Set(r, Proceed(Log(q, "redis", "set", ok), K, step, q.body))
                        /\ UNCHANGED <<coll, pgItems, myItems>>
                   [] step = "rget" ->
                        \* redisVal, _ := rdb.Get(ctx, key).Result()
                        LET hit == ok /\ RedisHit(cache, K.key) IN
                        /\ Set(r, Proceed(Log(q, "redis", "get", hit), K, step,
                                          Put(q.body, "redis", IF hit THEN cache[K.key] ELSE "")))
                        /\ UNCHANGED <<cache, coll, pgItems, myItems>>
                   [] step = "minsert" ->
                        \* mongoColl.InsertOne(ctx, bson.M{"name": doc, "ts": ...})
                        /\ coll' = IF ok THEN Append(coll, ("_id" :> OID(r)) @@ ("name" :> K.doc))
                                         ELSE coll
                        /\ Set(r, Proceed(Log(q, "mongo", "insert", ok), K, step, q.body))
                        /\ UNCHANGED <<cache, pgItems, myItems>>
                   [] step = "mfind" ->
                        \* mongoColl.FindOne(ctx, bson.M{"name": doc}).Decode(&mongoDoc)
                        LET m == Matching(coll, "name", K.doc)
                            found == ok /\ m # {} IN
                        /\ \E d \in (IF found THEN {coll[i] : i \in m} ELSE {EmptyMap}) :
                             Set(r, Proceed(Log(q, "mongo", "find", found), K, step,
                                            Put(q.body, "mongo", d)))
                        /\ UNCHANGED <<cache, coll, pgItems, myItems>>
                   [] step = "pginsert" ->
                        /\ pgItems' = IF ok THEN Append(pgItems, K.pg) ELSE pgItems
                        /\ Set(r, Proceed(Log(q, "pg", "insert", ok), K, step, q.body))
                        /\ UNCHANGED <<cache, coll, myItems>>
                   [] step = "pgselect" ->
                        \* SELECT name FROM items ORDER BY id DESC LIMIT 1
                        LET found == ok /\ Len(pgItems) > 0 IN
                        /\ Set(r, Proceed(Log(q, "pg", "select", found), K, step,
                                          Put(q.body, "postgres",
                                              IF found THEN pgItems[Len(pgItems)] ELSE "")))
                        /\ UNCHANGED <<cache, coll, pgItems, myItems>>
                   [] step = "myinsert" ->
                        /\ myItems' = IF ok THEN Append(myItems, K.my) ELSE myItems
                        /\ Set(r, Proceed(Log(q, "my", "insert", ok), K, step, q.body))
                        /\ UNCHANGED <<cache, coll, pgItems>>
                   [] step = "myselect" ->
                        LET found == ok /\ Len(myItems) > 0 IN
                        /\ Set(r, Proceed(Log(q, "my", "select", found), K, step,
                                          Put(q.body, "mysql",
                                              IF found THEN myItems[Len(myItems)] ELSE "")))
                        /\ UNCHANGED <<cache, coll, pgItems, myItems>>
                   [] step = "http" ->
                        \* resp, err := http.Get(...); httpStatus stays 0 on error
                        /\ \E st \in (IF ok THEN HttpStatuses ELSE {0}) :
                             Set(r, Proceed(Log(q, "http", "get", ok), K, step,
                                            Put(q.body, "httpStatus", st)))
                        /\ UNCHANGED <<cache, coll, pgItems, myItems>>
    /\ UNCHANGED <<variant, handle>>

\* r.GET("/redis-mongo", handleRedisMongo)
handleRedisMongo(r) == Aggregate(r, "handleRedisMongo", RedisMongoCfg)

\* r.GET("/triple", handleTriple)
handleTriple(r) == Aggregate(r, "handleTriple", TripleCfg)

\* r.GET("/all-dbs", handleAllDBs)
handleAllDBs(r) == Aggregate(r, "handleAllDBs", AllDBsCfg)

\* r.GET("/kitchen-sink", handleKitchenSink)
handleKitchenSink(r) == Aggregate(r, "handleKitchenSink", KitchenSinkCfg)

\* The routes main() registers (main.go lines 93-106).
RoutesMulti ==
    (<<"GET", "/healthz">> :> "healthz")
    @@ (<<"GET", "/redis-only">> :> "handleRedisOnly")
    @@ (<<"GET", "/mongo-only">> :> "handleMongoOnly")
    @@ (<<"GET", "/postgres-only">> :> "handlePostgresOnly")
    @@ (<<"GET", "/mysql-only">> :> "handleMySQLOnly")
    @@ (<<"GET", "/http-only">> :> "handleHTTPOnly")
    @@ (<<"GET", "/redis-mongo">> :> "handleRedisMongo")
    @@ (<<"GET", "/triple">> :> "handleTriple")
    @@ (<<"GET", "/all-dbs">> :> "handleAllDBs")
    @@ (<<"GET", "/kitchen-sink">> :> "handleKitchenSink")

\* ======================================================================
\* the router and the whole system
\* ======================================================================
Routes(v) ==
    CASE v = "multi" -> RoutesMulti
      [] v = "simple" -> RoutesSimple
      [] v = "item" -> RoutesItem

\* The requests a client sends: every route of the running variant, and the
\* health probe whether or not the variant registers it.
Requests(v) == (DOMAIN Routes(v)) \cup {<<"GET", "/healthz">>}

HasParam(path) == path \in {"/redis/:val", "/mongo/:val", "/postgres/:val", "/mysql/:val",
                            "/all/:val", "/api/item/:id"}

NoBody == [valid |-> FALSE, fields |-> EmptyMap]

\* gin's router: a registered route starts its handler; any other path is
\* answered 404 by the router itself.  A :param never matches the empty
\* string, so val is one of Vals.
Serve(m, path, val, b) ==
    /\ Len(reqs) < MaxRequests
    /\ <<m, path>> \in Requests(variant)
    /\ val \in (IF HasParam(path) THEN Vals ELSE {""})
    /\ b \in (IF m = "POST" THEN Bodies ELSE {NoBody})
    /\ reqs' = Append(reqs,
                  IF <<m, path>> \in DOMAIN Routes(variant)
                  THEN NewReq(<<m, path>>, Routes(variant)[<<m, path>>], val, b)
                  ELSE Reply(NewReq(<<m, path>>, "NoRoute", val, b), 404,
                             Err("404 page not found")))
    /\ UNCHANGED <<variant, handle, cache, coll, pgItems, myItems, faults>>

Paths == {"/healthz", "/redis-only", "/mongo-only", "/postgres-only", "/mysql-only",
          "/http-only", "/redis-mongo", "/triple", "/all-dbs", "/kitchen-sink",
          "/redis/:val", "/mongo/:val", "/postgres/:val", "/mysql/:val", "/all/:val",
          "/api/item", "/api/item/:id"}

\* A new request arrives.
Arrive ==
    \E m \in {"GET", "POST"}, path \in Paths, val \in Vals \cup {""},
       b \in Bodies \cup {NoBody} : Serve(m, path, val, b)

\* The TTL of some cache entry runs out.
Timeout == \E key \in DOMAIN cache : Expire(key)

InitMulti == InitVariant("multi")

InitSimple == InitVariant("simple")

InitItem == InitVariant("item")

Init == InitMulti \/ InitSimple \/ InitItem

\* A request in flight takes its next step.
StepMulti ==
    \/ \E r \in 1..Len(reqs) : healthz(r)
    \/ \E r \in 1..Len(reqs) : handleRedisOnly(r)
    \/ \E r \in 1..Len(reqs) : handleMongoOnly(r)
    \/ \E r \in 1..Len(reqs) : handlePostgresOnly(r)
    \/ \E r \in 1..Len(reqs) : handleMySQLOnly(r)
    \/ \E r \in 1..Len(reqs) : handleHTTPOnly(r)
    \/ \E r \in 1..Len(reqs) : handleRedisMongo(r)
    \/ \E r \in 1..Len(reqs) : handleTriple(r)
    \/ \E r \in 1..Len(reqs) : handleAllDBs(r)
    \/ \E r \in 1..Len(reqs) : handleKitchenSink(r)

StepSimple ==
    \/ \E r \in 1..Len(reqs) : handleRedis(r)
    \/ \E r \in 1..Len(reqs) : handleMongo(r)
    \/ \E r \in 1..Len(reqs) : handlePostgres(r)
    \/ \E r \in 1..Len(reqs) : handleMySQL(r)
    \/ \E r \in 1..Len(reqs) : handleAll(r)

StepItem ==
    \/ \E r \in 1..Len(reqs) : handleRedisOnlyVal(r)
    \/ \E r \in 1..Len(reqs) : handleMongoOnlyVal(r)
    \/ \E r \in 1..Len(reqs) : handlePostgresOnlyVal(r)
    \/ \E r \in 1..Len(reqs) : handleMySQLOnlyVal(r)
    \/ \E r \in 1..Len(reqs) : createItem(r)
    \/ \E r \in 1..Len(reqs) : getItem(r)

NextItem == Arrive \/ Timeout \/ StepItem

Next == Arrive \/ Timeout \/ StepMulti \/ StepSimple \/ StepItem

\* The item service alone.
SpecItem == InitItem /\ [][NextItem]_vars

\* Any of the three.
Spec == Init /\ [][Next]_vars

\* ======================================================================
\* properties
\* ======================================================================
Reqs == 1..Len(reqs)

Answered(h) == { r \in Reqs : reqs[r].h = h /\ reqs[r].pc = "done" }

\* The request made the call op on backend b, with that outcome.
Called(q, b, op, ok) == \E i \in 1..Len(q.ops) : q.ops[i] = <<b, op, ok>>

\* Item variant: the request has upserted the document id / set the cache key.
WroteDoc(q, id) ==
    /\ Called(q, "mongo", "upsert", TRUE)
    /\ \/ q.h = "createItem" /\ q.item.ID = id
       \/ q.h = "handleMongoOnlyVal" /\ q.val = id

WroteKey(q, key) ==
    /\ Called(q, "redis", "set", TRUE)
    /\ \/ q.h = "createItem" /\ ItemKey(q.item.ID) = key
       \/ q.h = "handleRedisOnlyVal" /\ q.val = key

\* <<p, g>>: g is a GET /api/item/:id that arrived after the POST /api/item p
\* for the same id had returned 200, and has been answered.
RoundTrips ==
    { pg \in Reqs \X Reqs :
        /\ pg[2] \in Answered("getItem")
        /\ pg[1] \in Answered("createItem")
        /\ pg[1] \in reqs[pg[2]].seen
        /\ reqs[pg[1]].status = 200
        /\ reqs[pg[1]].item.ID = reqs[pg[2]].val }

\* No request but p has written the document or the cache entry of p's item.
Undisturbed(p) ==
    \A o \in Reqs \ {p} :
        /\ ~WroteDoc(reqs[o], reqs[p].item.ID)
        /\ ~WroteKey(reqs[o], ItemKey(reqs[p].item.ID))

\* C1 as stated: after POST /api/item {id, name, value} has returned 200, a
\* following GET /api/item/:id returns 200 with the submitted id, name and
\* value and with redis_cached equal to the submitted value.
C1_RoundTripAlways ==
    \A pg \in RoundTrips :
        LET p == reqs[pg[1]]
            g == reqs[pg[2]] IN
        (\A o \in Answered("createItem") \ {pg[1]} : reqs[o].item.ID # p.item.ID)
        => /\ g.status = 200
           /\ g.body["item"] = p.item
           /\ g.body["redis_cached"] = p.item.Value

\* C1 amended: when no other request has written the document or the cache
\* key item:<id>, the following GET answers 200 with the submitted item if its
\* document read succeeds and 404 if that read fails; redis_cached is the
\* submitted value if the cache read hits, and "" if the entry has expired or
\* the cache read fails.
C1_RoundTrip ==
    \A pg \in RoundTrips :
        LET p == reqs[pg[1]]
            g == reqs[pg[2]] IN
        Undisturbed(pg[1])
        => /\ g.status = (IF Called(g, "mongo", "find", TRUE) THEN 200 ELSE 404)
           /\ g.status = 200 =>
                /\ g.body["item"] = p.item
                /\ g.body["redis_cached"] =
                      (IF Called(g, "redis", "get", TRUE) THEN p.item.Value ELSE "")

\* A round trip that read the item back from both stores.
C1_Witness ==
    \E pg \in RoundTrips :
        /\ Undisturbed(pg[1])
        /\ reqs[pg[2]].status = 200
        /\ reqs[pg[1]].item.Value # ""
        /\ reqs[pg[2]].body["redis_cached"] = reqs[pg[1]].item.Value
        /\ reqs[pg[2]].body["item"] = reqs[pg[1]].item

\* C2 as stated: POST /api/item with a body that has no id field, or that is
\* not valid JSON, returns 400 and writes nothing to the document store or to
\* the cache (stated for the requests none of whose backend calls failed).
C2_MissingIdRejected ==
    \A r \in Answered("createItem") :
        (/\ ~reqs[r].in.valid \/ "id" \notin DOMAIN reqs[r].in.fields
         /\ ~\E i \in 1..Len(reqs[r].ops) : ~reqs[r].ops[i][3])
        => reqs[r].status = 400 /\ reqs[r].ops = <<>>

\* C5 as stated: GET /api/item/:id for an id for which no POST /api/item has
\* succeeded returns 404 (a POST still in flight is counted as one that may
\* succeed).
C5_NeverCreated404 ==
    \A g \in Answered("getItem") :
        (\A p \in Reqs : ~(/\ reqs[p].h = "createItem"
                           /\ reqs[p].item.ID = reqs[g].val
                           /\ reqs[p].status \in {0, 200}))
        => reqs[g].status = 404

\* C5 amended: GET /api/item/:id returns 404 for an id whose document no
\* request has upserted: no POST /api/item (not even one that went on to
\* answer 500) and no GET /mongo/:val with val = id; whatever the cache holds
\* under item:<id>.
C5_NeverUpserted404 ==
    \A g \in Answered("getItem") :
        (\A o \in Reqs : ~WroteDoc(reqs[o], reqs[g].val))
        => reqs[g].status = 404

\* A 404 for an id nobody upserted while the cache holds item:<id>.
C5_Witness ==
    \E g \in Answered("getItem") :
        /\ \A o \in Reqs : ~WroteDoc(reqs[o], reqs[g].val)
        /\ reqs[g].status = 404
        /\ ItemKey(reqs[g].val) \in DOMAIN cache

\* C9 as stated: whenever the document is present in the document store,
\* GET /api/item/:id answers 200, whether the cache read hits, misses or
\* fails (redis_cached = "" on a miss or failure); it answers 404 only when
\* the document is absent.
C9_BestEffortCache ==
    \A g \in Answered("getItem") :
        /\ reqs[g].present => reqs[g].status = 200
        /\ reqs[g].status = 404 => ~reqs[g].present
        /\ (reqs[g].status = 200 /\ ~Called(reqs[g], "redis", "get", TRUE))
           => reqs[g].body["redis_cached"] = ""

\* ---------------------------------------------------------------------
AggregateHandlers ==
    {"handleRedisMongo", "handleTriple", "handleAllDBs", "handleKitchenSink", "handleAll"}

AnsweredBy(hs) == { r \in Reqs : reqs[r].h \in hs /\ reqs[r].pc = "done" }

\* The backends a handler uses.
BackendsOf(h) ==
    CASE h = "handleRedisMongo" -> {"redis", "mongo"}
      [] h = "handleTriple" -> {"redis", "mongo", "pg"}
      [] h \in {"handleAllDBs", "handleAll"} -> {"redis", "mongo", "pg", "my"}
      [] h = "handleKitchenSink" -> {"redis", "mongo", "pg", "my", "http"}

CallsTo(q, b) == { i \in 1..Len(q.ops) : q.ops[i][1] = b }

\* Every call the request made to b failed, and it made one.
Unreachable(q, b) == CallsTo(q, b) # {} /\ \A i \in CallsTo(q, b) : ~q.ops[i][3]

ErrorKey(b) ==
    CASE b = "redis" -> "redis_error"
      [] b = "mongo" -> "mongo_error"
      [] b = "pg" -> "postgres_error"
      [] b = "my" -> "mysql_error"
      [] b = "http" -> "http_error"

ErrorKeys(q) == { k \in DOMAIN q.body : \E b \in {"redis", "mongo", "pg", "my", "http"} : k = ErrorKey(b) }

\* C3 as stated: when exactly one backend is unreachable, the response of an
\* aggregate endpoint has a <backend>_error field for the failing backend and
\* for no other.
C3_ErrorFieldNamesFailingBackend ==
    \A r \in AnsweredBy(AggregateHandlers) :
        \A b \in BackendsOf(reqs[r].h) :
            (/\ reqs[r].status = 200
             /\ Unreachable(reqs[r], b)
             /\ \A i \in 1..Len(reqs[r].ops) : reqs[r].ops[i][1] # b => reqs[r].ops[i][3])
            => ErrorKeys(reqs[r]) = {ErrorKey(b)}

\* C4 as stated: an aggregate endpoint always responds 200, also when a
\* handle was left nil at start-up, and every backend of the handler is still
\* called after an earlier call failed.
C4_AggregateAlways200 ==
    \A r \in AnsweredBy(AggregateHandlers) :
        /\ reqs[r].status = 200
        /\ \A b \in BackendsOf(reqs[r].h) : CallsTo(reqs[r], b) # {}

HealthProbes == { r \in Reqs : reqs[r].route = <<"GET", "/healthz">> /\ reqs[r].pc = "done" }

HealthOK(q) ==
    /\ q.status = 200
    /\ DOMAIN q.body = {"status"}
    /\ q.body["status"] = "ok"
    /\ q.ops = <<>>

\* C6 as stated: GET /healthz returns 200 {"status":"ok"} in every variant
\* and every state of backend reachability, without a backend operation.
C6_HealthzEveryVariant == \A r \in HealthProbes : HealthOK(reqs[r])

\* C6 amended: in the variant that registers the route (main.go:93) GET
\* /healthz returns 200 {"status":"ok"} whatever the backends do, without a
\* backend operation; the other two variants register no /healthz route.
C6_HealthzMulti == variant = "multi" => \A r \in HealthProbes : HealthOK(reqs[r])

\* A health probe answered while a handle is nil and a backend call has failed.
C6_Witness ==
    /\ variant = "multi"
    /\ \E b \in DOMAIN handle : ~handle[b]
    /\ faults > 0
    /\ \E r \in HealthProbes : HealthOK(reqs[r]) /\ reqs[r].seen # {}

RedisValHandlers == {"handleRedis", "handleRedisOnlyVal"}

\* C7 as stated: every GET /redis/:val whose cache set and cache get both
\* succeed responds 200 with value = val, also under concurrent requests.
C7_ReadsOwnValueAlways ==
    \A r \in AnsweredBy(RedisValHandlers) :
        (Called(reqs[r], "redis", "set", TRUE) /\ Called(reqs[r], "redis", "get", TRUE))
        => reqs[r].status = 200 /\ reqs[r].body["value"] = reqs[r].val

\* C7 amended: every GET /redis/:val whose cache set and cache get both
\* succeed responds 200, and with value = val unless a POST /api/item has set
\* the same cache key (val = "item:" + id) to a different value.
C7_ReadsOwnValue ==
    \A r \in AnsweredBy(RedisValHandlers) :
        (Called(reqs[r], "redis", "set", TRUE) /\ Called(reqs[r], "redis", "get", TRUE))
        => /\ reqs[r].status = 200
           /\ (\A o \in Reqs : ~(/\ reqs[o].h = "createItem"
                                 /\ WroteKey(reqs[o], reqs[r].val)
                                 /\ reqs[o].item.Value # reqs[r].val))
              => reqs[r].body["value"] = reqs[r].val

\* Two overlapping GET /redis/:val for the same val, both answered with val.
C7_Witness ==
    \E r1, r2 \in AnsweredBy(RedisValHandlers) :
        /\ r1 < r2
        /\ r1 \notin reqs[r2].seen
        /\ reqs[r1].val = reqs[r2].val
        /\ reqs[r1].status = 200 /\ reqs[r1].body["value"] = reqs[r1].val
        /\ reqs[r2].status = 200 /\ reqs[r2].body["value"] = reqs[r2].val

SingleHandlers ==
    {"handleRedisOnly", "handleMongoOnly", "handlePostgresOnly", "handleMySQLOnly",
     "handleHTTPOnly", "handleRedis", "handleMongo", "handlePostgres", "handleMySQL",
     "handleRedisOnlyVal", "handleMongoOnlyVal", "handlePostgresOnlyVal",
     "handleMySQLOnlyVal"}

HasErrorString(q) == "error" \in DOMAIN q.body

Payload(q) ==
    IF "doc" \in DOMAIN q.body THEN q.body["doc"]
    ELSE IF "document" \in DOMAIN q.body THEN q.body["document"]
    ELSE q.body

\* The response carries every field the request itself wrote.
ReadsBack(q) ==
    /\ q.wrote # EmptyMap
    /\ \A k \in DOMAIN q.wrote : k \in DOMAIN Payload(q) /\ Payload(q)[k] = q.wrote[k]

ReadBackHandlers ==
    {"handleMongoOnly", "handlePostgresOnly", "handleMySQLOnly", "handleMongo",
     "handlePostgres", "handleMySQL", "handleMongoOnlyVal", "handlePostgresOnlyVal",
     "handleMySQLOnlyVal"}

\* The handlers whose read-back selects by the written value.
FilteredHandlers ==
    {"handleMongo", "handlePostgres", "handleMySQL", "handlePostgresOnlyVal",
     "handleMySQLOnlyVal"}

\* C10 as stated: in every single-backend relational or document handler the
\* value of a 200 response is the value that same request wrote, under every
\* interleaving with requests writing the same table or collection.
C10_ReadsOwnWriteAlways ==
    \A r \in AnsweredBy(ReadBackHandlers) : reqs[r].status = 200 => ReadsBack(reqs[r])

\* Another request has written, in the store the handler of q reads, something
\* its read-back can return instead of its own write.
Interfered(r) ==
    LET q == reqs[r] IN
    \E o \in Reqs \ {r} :
        CASE q.h = "handlePostgresOnly" -> Called(reqs[o], "pg", "insert", TRUE)
          [] q.h = "handleMySQLOnly" -> Called(reqs[o], "my", "insert", TRUE)
          [] q.h = "handleMongoOnly" ->
                Called(reqs[o], "mongo", "insert", TRUE) /\ reqs[o].h = "handleMongoOnly"
          [] q.h = "handleMongoOnlyVal" ->
                reqs[o].h = "createItem" /\ WroteDoc(reqs[o], q.val)
          [] OTHER -> FALSE

\* C10 amended: the value of the 200 response is the request's own write
\* under every interleaving in the handlers whose read-back selects by the
\* written value (postgres/:val and mysql/:val of both variants, mongo/:val of
\* the simple variant).  In postgres-only and mysql-only (last row of the
\* table), mongo-only (some document named test-item) and mongo/:val of the
\* item variant (the document as last upserted, POST /api/item included) it is
\* the request's own write if no other request has written there.
C10_ReadsOwnWrite ==
    \A r \in AnsweredBy(ReadBackHandlers) :
        reqs[r].status = 200 =>
            /\ reqs[r].h \in FilteredHandlers => ReadsBack(reqs[r])
            /\ ~Interfered(r) => ReadsBack(reqs[r])

\* A filtered read-back that returned the request's own value although
\* another request's row had become the last of the table.
C10_Witness ==
    \E r \in AnsweredBy(FilteredHandlers) :
        reqs[r].status = 200 /\ reqs[r].raced /\ ReadsBack(reqs[r])
\* ---------------------------------------------------------------------
\* The POST /api/item requests answered 500 after their upsert had succeeded.
PartialCreates ==
    { p \in Answered("createItem") :
        reqs[p].status = 500 /\ Called(reqs[p], "mongo", "upsert", TRUE) }

\* A GET /api/item/:id that arrived after such a POST for the same id was
\* answered, the document written by no other request, finds the document,
\* and answers 200 with the posted item when its document read is answered.
DocumentStays ==
    \A p \in PartialCreates : \A g \in Answered("getItem") :
        (/\ p \in reqs[g].seen
         /\ reqs[g].val = reqs[p].item.ID
         /\ \A o \in Reqs \ {p} : ~WroteDoc(reqs[o], reqs[p].item.ID))
        => /\ reqs[g].present
           /\ Called(reqs[g], "mongo", "find", TRUE)
              => reqs[g].status = 200 /\ reqs[g].body["item"] = reqs[p].item

\* A step of createItem other than its successful cache write leaves the
\* cache as it was; the step that answers 400 or 500 leaves the collection
\* as it was (nothing is undone); the request whose upsert failed has made
\* that one backend call and no other.
CreateStepKeepsCache ==
    \A r \in 1..Len(reqs) :
        (reqs[r].h = "createItem" /\ reqs'[r] # reqs[r] /\ reqs'[r].status # 200)
        => /\ cache' = cache
           /\ reqs'[r].pc = "done" => coll' = coll
           /\ (reqs[r].pc = "start" /\ reqs'[r].status = 500)
              => reqs'[r].ops = << <<"mongo", "upsert", FALSE>> >>
           /\ (reqs[r].pc = "set" /\ reqs'[r].status = 500)
              => reqs'[r].ops = << <<"mongo", "upsert", TRUE>>, <<"redis", "set", FALSE>> >>

Creates(id) ==
    { p \in Reqs : /\ reqs[p].h = "createItem"
                   /\ reqs[p].in.valid
                   /\ Field(reqs[p].in.fields, "id") = id }

CreatedIds == { Field(reqs[p].in.fields, "id") : p \in { q \in Reqs : reqs[q].h = "createItem" } }

\* Two or more creates of the id with different values, all answered 200 and
\* none in flight; the cache entry has not expired; the per-value routes
\* have written neither the document nor the key.
Settled(id) ==
    /\ \A p \in Creates(id) : Done(reqs[p]) /\ reqs[p].status = 200
    /\ \E p, q \in Creates(id) :
           Field(reqs[p].in.fields, "value") # Field(reqs[q].in.fields, "value")
    /\ RedisHit(cache, ItemKey(id))
    /\ \A o \in Reqs : reqs[o].h # "createItem"
           => ~WroteDoc(reqs[o], id) /\ ~WroteKey(reqs[o], ItemKey(id))

\* The value cached under item:<id> is the value field of the stored document.
Agree(id) ==
    /\ Matching(coll, "_id", id) # {}
    /\ \A i \in Matching(coll, "_id", id) : cache[ItemKey(id)] = Field(coll[i], "value")

\* No two creates of the id overlapped: one had been answered when the other
\* arrived.
Sequential(id) ==
    \A p, q \in Creates(id) : p # q => p \in reqs[q].seen \/ q \in reqs[p].seen

\* C12 as stated: for every interleaving of two or more POST /api/item with
\* the same id and different values that all return 200, once none is in
\* flight and before the entry expires, the value cached under item:<id>
\* equals the value field of the stored document.
C12_CacheAgreesAlways == \A id \in CreatedIds : Settled(id) => Agree(id)

\* C12 amended: the cache entry and the stored document agree when the
\* creates did not overlap (each was answered before the next arrived).  Two
\* overlapping creates can upsert in one order and write the cache in the
\* other, leaving the cache with one value and the document with the other.
C12_CacheAgrees == \A id \in CreatedIds : (Settled(id) /\ Sequential(id)) => Agree(id)

\* Two creates of one id with different values, one after the other, and the
\* cache entry and the document both hold the value of the second.
C12_Witness ==
    \E id \in CreatedIds : \E p, q \in Creates(id) :
        /\ Settled(id) /\ Sequential(id) /\ Agree(id)
        /\ p \in reqs[q].seen
        /\ reqs[p].item.Value # reqs[q].item.Value
        /\ cache[ItemKey(id)] = reqs[q].item.Value
====
